---- MODULE Spec2Model ----
(***************************************************************************)
(* Model of the Teams chat backup pipeline (class Backup): getMessages,    *)
(* getPages, getImages and createHtml, run in sequence by Backup.run, and  *)
(* of the helpers escapeHtml, replaceImages and pipeDone.                  *)
(*                                                                         *)
(* Strings that the code builds or pattern-matches (file names, page       *)
(* numbers) are sequences of one-character strings.  Optional JSON fields  *)
(* are <<>> when absent and <<v>> when present.                            *)
(***************************************************************************)
EXTENDS Integers, Sequences, FiniteSets, TLC

VARIABLES
  stage,        \* position of Backup.run
  thrown,       \* history: the rejected request, <<[in, error]>> (<<>> when none)
  runError,     \* the error run rejected with ("none" otherwise)
  files,        \* the target directory: file name -> content
  url,          \* getMessages: the URL of the next GET
  page,         \* getMessages: the page counter
  lastRes,      \* getMessages: the last response received (<<>> before the first)
  writes,       \* history: the page files written by this run, in order
  pages,        \* getImages/createHtml: the result of getPages
  scan,         \* getImages: number of image URL occurrences handled so far
  index,        \* getImages: URL -> local file name
  imageIdx,     \* getImages: the image counter
  downloads,    \* history: the image URLs a GET was issued for, in order
  myId,         \* createHtml: the id of the archive owner
  imageIndex,   \* createHtml: the parsed images.json (<<>> is undefined)
  allMessages,  \* createHtml: the merged, sorted messages
  msgIdx,       \* createHtml: number of messages the forward pass has handled
  prevSender,   \* createHtml: sender id of the previous message (<<>> is null)
  prevTime,     \* createHtml: time of the previous message (<<>> is null)
  prevHadReaction, \* createHtml: whether the previous message had a reaction
  lastMessageDay,  \* createHtml: day of the last date separator (<<>> is null)
  html,         \* the writes to index.html so far
  console,      \* history: the errors logged by console.error, in order
  streaming,    \* getImages: the response being piped, <<[url, file, failed]>>
  writing,      \* the image files whose write stream has not finished
  string,       \* a string handed to escapeHtml on its own
  escaped,      \* <<what escapeHtml returned for it>> (<<>> before the call)
  cli,          \* CLI main: its position
  token,        \* CLI: the content of the token file (<<>> when there is none)
  runs,         \* history: the token of each Backup that run was called on
  mainError,    \* the error CLI main rejected with ("none" otherwise)
  emo,          \* emoticon downloader: the position of main
  assets,       \* emoticon downloader: the output directory, name -> content
  processed,    \* emoticon downloader: the loop counter
  invocation,   \* history: the number of the invocation of the downloader
  attempts      \* history: [invocation, file, outcome] of each download

vars == <<stage, thrown, runError, files, url, page, lastRes, writes, pages,
          scan, index, imageIdx, downloads, myId, imageIndex, allMessages,
          msgIdx, prevSender, prevTime, prevHadReaction, lastMessageDay, html,
          console, streaming, writing, string, escaped, cli, token, runs,
          mainError, emo, assets, processed, invocation, attempts>>

fetchVars == <<url, page, lastRes, writes>>
imageVars == <<scan, index, imageIdx, downloads>>
htmlVars  == <<myId, imageIndex, allMessages, msgIdx, prevSender, prevTime,
               prevHadReaction, lastMessageDay, html, console>>
streamVars == <<streaming, writing>>
pureVars  == <<string, escaped>>
cliVars   == <<cli, token, runs, mainError>>
emoVars   == <<emo, assets, processed, invocation, attempts>>

(***************************************************************************)
(* Bounds of the model.                                                    *)
(***************************************************************************)
\* number of responses after which the server ends the pagination
MaxPages == 3
\* number of messages in the page file the renderer starts from
MaxMsgs == 3
\* page counter at which the long run is picked up
LongStart == 99998
\* number of further responses of the long run
LongPages == 3

(***************************************************************************)
(* Strings.                                                                *)
(***************************************************************************)
DigitChars == <<"0", "1", "2", "3", "4", "5", "6", "7", "8", "9">>

IsDigit(c) == \E d \in 1..Len(DigitChars) : DigitChars[d] = c

DigitValue(c) == (CHOOSE d \in 1..Len(DigitChars) : DigitChars[d] = c) - 1

\* `${n}` for a non-negative integer n
RECURSIVE Decimal(_)
Decimal(n) ==
  IF n < 10 THEN <<DigitChars[n + 1]>>
  ELSE Decimal(n \div 10) \o <<DigitChars[(n % 10) + 1]>>

\* s.slice(-k)
SliceLast(s, k) ==
  IF Len(s) <= k THEN s ELSE SubSeq(s, Len(s) - k + 1, Len(s))

\* the numeric value of a sequence of digit characters
RECURSIVE NumberOf(_)
NumberOf(s) ==
  IF s = <<>> THEN 0
  ELSE 10 * NumberOf(SubSeq(s, 1, Len(s) - 1)) + DigitValue(s[Len(s)])

PadWidth == 5

ZeroPrefix == <<"0", "0", "0", "0">>

\* `0000${n}`.slice(-5), the number part of page and image file names
PadSlice(n) == SliceLast(ZeroPrefix \o Decimal(n), PadWidth)

MessagesPrefix == <<"m", "e", "s", "s", "a", "g", "e", "s", "-">>
JsonSuffix == <<".", "j", "s", "o", "n">>
ImagePrefix == <<"i", "m", "a", "g", "e", "-">>
ImagesJson == <<"i", "m", "a", "g", "e", "s">> \o JsonSuffix
IndexHtml == <<"i", "n", "d", "e", "x", ".", "h", "t", "m", "l">>

\* the page number a response is stored under
PageNumOff(p) == PadSlice(p + 1)
PageNum(p) == PadSlice(p)

MessagesFile(pageNum) == MessagesPrefix \o pageNum \o JsonSuffix

\* FILENAME_MATCH.test(f): "messages-", one or more digits, ".json", anywhere in f
FilenameMatch(f) ==
  \E i \in 1..Len(f) : \E n \in 1..Len(f) :
    /\ i + Len(MessagesPrefix) + n + Len(JsonSuffix) - 1 <= Len(f)
    /\ SubSeq(f, i, i + Len(MessagesPrefix) - 1) = MessagesPrefix
    /\ \A k \in (i + Len(MessagesPrefix))..(i + Len(MessagesPrefix) + n - 1) :
         IsDigit(f[k])
    /\ SubSeq(f, i + Len(MessagesPrefix) + n,
              i + Len(MessagesPrefix) + n + Len(JsonSuffix) - 1) = JsonSuffix

(***************************************************************************)
(* Messages.                                                               *)
(***************************************************************************)
MinuteMs == 60000
DayMs == 86400000

User(id, name) == [user |-> <<[id |-> id, displayName |-> name]>>, application |-> <<>>]
Application(name) == [user |-> <<>>, application |-> <<[displayName |-> name]>>]
NoIdentity == [user |-> <<>>, application |-> <<>>]

\* A message.  The body content is held as what the code does with it: text
\* is its characters outside image URLs, imageUrls is what
\* body.content.match(UPLOADED_IMAGE_MATCH) finds in it (<<>> for no match).
\* reactions holds the display name of each reaction.
Message(id, created, modified, from, contentType, imageUrls, reactions) ==
  [id |-> id, createdDateTime |-> created, lastModifiedDateTime |-> modified,
   from |-> from, contentType |-> contentType, imageUrls |-> imageUrls,
   reactions |-> reactions, text |-> <<>>, attachments |-> <<>>]

Like == <<"L", "i", "k", "e">>

\* the pages the modelled server answers with
PageA ==
  << Message(1, <<0>>, <<0>>, <<User("me", "Ann")>>, "html",
             <<"chats/img1", "chats/img1">>, <<>>),
     Message(2, <<MinuteMs>>, <<MinuteMs>>, <<User("me", "Ann")>>, "text",
             <<"chats/img2">>, <<Like>>) >>
PageB ==
  << Message(3, <<DayMs>>, <<DayMs>>, <<User("u2", "Bob")>>, "html",
             <<"chats/img2", "chats/img1">>, <<>>) >>

ServerValues == {<<>>, PageA, PageB}
ServerCounts == {<<>>, <<0>>, <<2>>}
ServerLinks == {"", "next-a", "next-b"}
BaseUrl == "messages"
\* the messages of the errors a request rejects with
Errors == {"Network Error", "401 Unauthorized", "unauthorized", "invalid token"}

Response(value, count, link) == [value |-> value, count |-> count, nextLink |-> link]

(***************************************************************************)
(* Backup.run                                                              *)
(***************************************************************************)
\* run: the stage after `current` has settled; a rejected await rejects run
RunNextIgnoringFailure(current, failed) ==
  CASE current = "createTarget" -> "getMessages"
    [] current = "getMessages" -> "getImages"
    [] current = "getImages" -> "createHtml"
    [] current = "createHtml" -> "done"
RunNext(current, failed) ==
  IF failed THEN "rejected"
  ELSE CASE current = "createTarget" -> "getMessages"
         [] current = "getMessages" -> "getImages"
         [] current = "getImages" -> "createHtml"
         [] current = "createHtml" -> "done"

\* createTarget never rejects: probe's callback is resolve
CreateTarget ==
  /\ stage = "createTarget"
  /\ stage' = RunNext("createTarget", FALSE)
  /\ UNCHANGED <<cliVars, emoVars, pureVars, streamVars, thrown, runError,
                 files, fetchVars,
                 pages, imageVars, htmlVars>>

(***************************************************************************)
(* Backup.getMessages                                                      *)
(***************************************************************************)
\* res.data['@odata.count'] && res.data['@odata.nextLink']
ContinueOnEither(res) ==
  \/ (res.count # <<>> /\ res.count[1] # 0)
  \/ res.nextLink # ""
ContinuePaging(res) ==
  /\ res.count # <<>> /\ res.count[1] # 0
  /\ res.nextLink # ""

\* res.data.value && res.data.value.length
HasValue(res) == Len(res.value) > 0

\* one round of the while loop whose GET is answered by res
GetMessagesRound(res) ==
  /\ page' = page + 1
  /\ lastRes' = <<res>>
  /\ IF HasValue(res)
       THEN /\ files' = [f \in DOMAIN files \cup {MessagesFile(PageNum(page))} |->
                           IF f = MessagesFile(PageNum(page)) THEN res.value ELSE files[f]]
            /\ writes' = Append(writes, [response |-> page, pageNum |-> PageNum(page)])
       ELSE UNCHANGED <<files, writes>>
  /\ IF ContinuePaging(res)
       THEN /\ url' = res.nextLink
            /\ UNCHANGED stage
       ELSE /\ url' = url
            /\ stage' = RunNext("getMessages", FALSE)
  /\ UNCHANGED <<cliVars, emoVars, pureVars, streamVars, thrown, runError>>

\* the responses the server may give to the GET of round `page`
ServerResponses(limit) ==
  IF page + 1 < limit
    THEN {Response(v, c, l) : v \in ServerValues, c \in ServerCounts, l \in ServerLinks}
    ELSE {Response(v, <<>>, "") : v \in ServerValues}

GetMessagesOk(limit) ==
  /\ stage = "getMessages"
  /\ \E res \in ServerResponses(limit) : GetMessagesRound(res)
  /\ UNCHANGED <<cliVars, emoVars, pureVars, streamVars, pages, imageVars,
                 htmlVars>>

\* this.instance.get(url) rejects: getMessages rejects, and so does run
GetMessagesFail ==
  /\ stage = "getMessages"
  /\ \E e \in Errors :
       /\ thrown' = <<[in |-> "getMessages", error |-> e]>>
       /\ runError' = IF RunNext("getMessages", TRUE) = "rejected" THEN e ELSE runError
  /\ stage' = RunNext("getMessages", TRUE)
  /\ page' = page + 1
  /\ UNCHANGED <<cliVars, emoVars, pureVars, streamVars, files, url, lastRes,
                 writes, pages, imageVars, htmlVars>>

(***************************************************************************)
(* Backup.getPages                                                         *)
(***************************************************************************)
RECURSIVE Orderings(_)
Orderings(S) ==
  IF S = {} THEN {<<>>}
  ELSE UNION {{<<x>> \o rest : rest \in Orderings(S \ {x})} : x \in S}

\* filenames.filter(filename => FILENAME_MATCH.test(filename))
FilterPages(filenames) == SelectSeq(filenames, FilenameMatch)

\* The possible results of getPages.  fs.readdir gives the names of the
\* directory in an order the file system chooses, and filter keeps that order,
\* so the results are the orderings of the matching names.
GetPages == Orderings({f \in DOMAIN files : FilterPages(<<f>>) # <<>>})

(***************************************************************************)
(* Backup.getImages                                                        *)
(***************************************************************************)
\* the URLs getImages meets in one message, in order
MessageUrls(message) ==
  IF message.contentType = "html" THEN message.imageUrls ELSE <<>>

RECURSIVE MessagesUrls(_)
MessagesUrls(messages) ==
  IF messages = <<>> THEN <<>>
  ELSE MessageUrls(Head(messages)) \o MessagesUrls(Tail(messages))

\* the URLs the three nested loops of getImages meet, in order
RECURSIVE ScanUrls(_)
ScanUrls(pgs) ==
  IF pgs = <<>> THEN <<>>
  ELSE MessagesUrls(files[Head(pgs)]) \o ScanUrls(Tail(pgs))

\* !index[imageUrl]
AlwaysDownload(idx, imageUrl) == TRUE
NeedsDownload(idx, imageUrl) == imageUrl \notin DOMAIN idx

\* 'image-' + `0000${imageIdx++}`.slice(-5)
TargetFilename(idx) == ImagePrefix \o PadSlice(idx)

WriteFile(fs, name, content) ==
  [f \in DOMAIN fs \cup {name} |-> IF f = name THEN content ELSE fs[f]]

GetImagesBegin ==
  /\ stage = "getImages"
  /\ \E result \in GetPages : pages' = result
  /\ index' = <<>>
  /\ imageIdx' = 0
  /\ scan' = 0
  /\ stage' = "scanning"
  /\ UNCHANGED <<cliVars, emoVars, pureVars, streamVars, thrown, runError,
                 files, fetchVars, downloads, htmlVars>>

\* an occurrence of a URL that is in the index already
GetImagesSkip ==
  /\ stage = "scanning"
  /\ streaming = <<>>
  /\ scan < Len(ScanUrls(pages))
  /\ ~NeedsDownload(index, ScanUrls(pages)[scan + 1])
  /\ scan' = scan + 1
  /\ UNCHANGED <<cliVars, emoVars, pureVars, streamVars, stage, thrown,
                 runError, files,
                 fetchVars, pages, index, imageIdx, downloads, htmlVars>>

\* the first occurrence of a URL: the GET resolves with a stream, which is
\* piped into a write stream on the target file; getImages awaits pipeDone
GetImagesDownload ==
  /\ stage = "scanning"
  /\ streaming = <<>>
  /\ scan < Len(ScanUrls(pages))
  /\ LET imageUrl == ScanUrls(pages)[scan + 1] IN
       /\ NeedsDownload(index, imageUrl)
       /\ imageIdx' = imageIdx + 1
       /\ downloads' = Append(downloads, imageUrl)
       /\ files' = WriteFile(files, TargetFilename(imageIdx), imageUrl)
       /\ streaming' = <<[url |-> imageUrl, file |-> TargetFilename(imageIdx),
                          failed |-> FALSE]>>
       /\ writing' = writing \cup {TargetFilename(imageIdx)}
  /\ UNCHANGED <<cliVars, emoVars, pureVars, stage, thrown, runError,
                 fetchVars, pages, scan,
                 index, htmlVars>>

\* pipeDone: the promise resolves when the readable emits 'end'; there is
\* no listener for 'error', and nothing rejects it
PipeDone(readable) == readable # <<>> /\ ~readable[1].failed

\* the response stream fails before it ends: it emits 'error' and never
\* 'end', pipe leaves the write stream open, and pipeDone stays pending
GetImagesStreamError ==
  /\ stage = "scanning"
  /\ streaming # <<>>
  /\ ~streaming[1].failed
  /\ streaming' = <<[streaming[1] EXCEPT !.failed = TRUE]>>
  /\ UNCHANGED <<cliVars, emoVars, pureVars, writing, stage, thrown, runError,
                 files, fetchVars, pages, imageVars, htmlVars>>

\* the response stream ends: pipe ends the write stream, pipeDone resolves,
\* and getImages records the URL; the write stream has yet to finish
GetImagesPiped ==
  /\ stage = "scanning"
  /\ PipeDone(streaming)
  /\ index' = [u \in DOMAIN index \cup {streaming[1].url} |->
                 IF u = streaming[1].url THEN streaming[1].file ELSE index[u]]
  /\ scan' = scan + 1
  /\ streaming' = <<>>
  /\ UNCHANGED <<cliVars, emoVars, pureVars, writing, stage, thrown, runError,
                 files, fetchVars,
                 pages, imageIdx, downloads, htmlVars>>

\* a write stream that was ended flushes its data and closes the file
WriteStreamFinish ==
  /\ \E f \in writing :
       /\ IF streaming = <<>> THEN TRUE ELSE streaming[1].file # f
       /\ writing' = writing \ {f}
  /\ UNCHANGED <<cliVars, emoVars, pureVars, streaming, stage, thrown,
                 runError, files,
                 fetchVars, pages, imageVars, htmlVars>>

\* the GET of an image rejects: getImages rejects, and so does run
GetImagesFail ==
  /\ stage = "scanning"
  /\ streaming = <<>>
  /\ scan < Len(ScanUrls(pages))
  /\ NeedsDownload(index, ScanUrls(pages)[scan + 1])
  /\ imageIdx' = imageIdx + 1
  /\ downloads' = Append(downloads, ScanUrls(pages)[scan + 1])
  /\ \E e \in Errors :
       /\ thrown' = <<[in |-> "getImages", error |-> e]>>
       /\ runError' = IF RunNext("getImages", TRUE) = "rejected" THEN e ELSE runError
  /\ stage' = RunNext("getImages", TRUE)
  /\ UNCHANGED <<cliVars, emoVars, pureVars, streamVars, files, fetchVars,
                 pages, scan, index,
                 htmlVars>>

\* write image index
GetImagesEnd ==
  /\ stage = "scanning"
  /\ streaming = <<>>
  /\ scan = Len(ScanUrls(pages))
  /\ files' = WriteFile(files, ImagesJson, index)
  /\ stage' = RunNext("getImages", FALSE)
  /\ UNCHANGED <<cliVars, emoVars, pureVars, streamVars, thrown, runError,
                 fetchVars, pages,
                 imageVars, htmlVars>>

(***************************************************************************)
(* Backup.createHtml: merge and sort                                       *)
(***************************************************************************)
\* allMessages = allMessages.concat(messages), page after page
RECURSIVE Merge(_)
Merge(pgs) ==
  IF pgs = <<>> THEN <<>> ELSE files[Head(pgs)] \o Merge(Tail(pgs))

\* new Date(a.createdDateTime) - new Date(b.createdDateTime); the difference is
\* NaN when a createdDateTime is absent, which sort takes as +0
CompareCreated(a, b) ==
  IF a.createdDateTime = <<>> \/ b.createdDateTime = <<>> THEN 0
  ELSE a.createdDateTime[1] - b.createdDateTime[1]

\* whether the comparison function is a consistent comparator for the messages
\* (ECMAScript, Array.prototype.sort)
ConsistentComparator(msgs) ==
  \A i, j, k \in 1..Len(msgs) :
    /\ (CompareCreated(msgs[i], msgs[j]) = 0 /\ CompareCreated(msgs[j], msgs[k]) = 0)
         => CompareCreated(msgs[i], msgs[k]) = 0
    /\ (CompareCreated(msgs[i], msgs[j]) < 0 /\ CompareCreated(msgs[j], msgs[k]) < 0)
         => CompareCreated(msgs[i], msgs[k]) < 0

Insert(sorted, m) ==
  LET k == Cardinality({i \in 1..Len(sorted) : CompareCreated(sorted[i], m) <= 0})
  IN SubSeq(sorted, 1, k) \o <<m>> \o SubSeq(sorted, k + 1, Len(sorted))

RECURSIVE StableSort(_)
StableSort(msgs) ==
  IF msgs = <<>> THEN <<>>
  ELSE Insert(StableSort(SubSeq(msgs, 1, Len(msgs) - 1)), msgs[Len(msgs)])

\* The possible results of allMessages.sort(...): the stable sort when the
\* comparison function is consistent, and otherwise an order the
\* implementation chooses.
SortResults(msgs) ==
  IF ConsistentComparator(msgs) THEN {StableSort(msgs)}
  ELSE {[i \in 1..Len(msgs) |-> msgs[o[i]]] : o \in Orderings(1..Len(msgs))}

(***************************************************************************)
(* Backup.createHtml: the forward pass                                     *)
(***************************************************************************)
\* new Date(message.createdDateTime || message.lastModifiedDateTime), in ms
CurrentTime(message) ==
  IF message.createdDateTime # <<>> THEN message.createdDateTime[1]
  ELSE message.lastModifiedDateTime[1]

\* currentTime.toDateString(): the calendar day, with local time taken as UTC
MessageDay(time) == time \div DayMs

\* senderId: <<>> is null
SenderId(message) ==
  IF message.from = <<>> THEN <<>>
  ELSE IF message.from[1].user # <<>> THEN <<message.from[1].user[1].id>>
  ELSE IF message.from[1].application # <<>>
    THEN <<message.from[1].application[1].displayName>>
  ELSE <<>>

\* showHeader
ShowHeaderStrict(pSender, pTime, senderId, currentTime) ==
  ~ ( /\ pSender # <<>> /\ pSender[1] # ""
      /\ pTime # <<>>
      /\ senderId = pSender
      /\ currentTime - pTime[1] < MinuteMs )
ShowHeader(pSender, pTime, senderId, currentTime) ==
  ~ ( /\ pSender # <<>> /\ pSender[1] # ""
      /\ pTime # <<>>
      /\ senderId = pSender
      /\ currentTime - pTime[1] <= MinuteMs )

\* whether the message gets a bubble: from.user != null or from.application != null
Rendered(message) ==
  /\ message.from # <<>>
  /\ (message.from[1].user # <<>> \/ message.from[1].application # <<>>)

\* the class of the message-group div
GroupClassBySenderId(message, showHeader, hadReaction, me) ==
  LET right == SenderId(message) = <<me>>
  IN IF showHeader \/ hadReaction
       THEN (IF right THEN "group-right" ELSE "group-left")
       ELSE (IF right THEN "group-right-collapsed" ELSE "group-left-collapsed")
GroupClass(message, showHeader, hadReaction, me) ==
  LET right == message.from[1].user # <<>> /\ message.from[1].user[1].id = me
  IN IF showHeader \/ hadReaction
       THEN (IF right THEN "group-right" ELSE "group-left")
       ELSE (IF right THEN "group-right-collapsed" ELSE "group-left-collapsed")

(***************************************************************************)
(* escapeHtml and replaceImages                                            *)
(***************************************************************************)
RECURSIVE Flatten(_)
Flatten(parts) ==
  IF parts = <<>> THEN <<>> ELSE Head(parts) \o Flatten(Tail(parts))

\* s.replace(/c/g, entity) on a string of characters
ReplaceAll(s, c, entity) ==
  Flatten([i \in 1..Len(s) |-> IF s[i] = c THEN entity ELSE <<s[i]>>])

AmpEntity  == <<"&", "a", "m", "p", ";">>
LtEntity   == <<"&", "l", "t", ";">>
GtEntity   == <<"&", "g", "t", ";">>
QuotEntity == <<"&", "q", "u", "o", "t", ";">>
AposEntity == <<"&", "#", "0", "3", "9", ";">>

EscapeHtmlAmpLast(unsafe) ==
  ReplaceAll(ReplaceAll(ReplaceAll(ReplaceAll(ReplaceAll(
    unsafe, "<", LtEntity), ">", GtEntity), "\"", QuotEntity), "'", AposEntity),
    "&", AmpEntity)
EscapeHtml(unsafe) ==
  ReplaceAll(ReplaceAll(ReplaceAll(ReplaceAll(ReplaceAll(
    unsafe, "&", AmpEntity), "<", LtEntity), ">", GtEntity), "\"", QuotEntity),
    "'", AposEntity)

\* content.replace(UPLOADED_IMAGE_MATCH, url => imageIndex[url] || url), on the
\* URLs the pattern matches: [file |-> f] is a URL replaced by a file name,
\* [url |-> u] a URL left as it was; idx is <<>> when imageIndex is undefined
ReplaceImagesNoFallback(content, idx) ==
  [i \in 1..Len(content) |->
     IF idx # <<>> /\ content[i] \in DOMAIN idx[1] THEN [file |-> idx[1][content[i]]]
     ELSE [undefined |-> content[i]]]
ReplaceImages(content, idx) ==
  [i \in 1..Len(content) |->
     IF idx # <<>> /\ content[i] \in DOMAIN idx[1] THEN [file |-> idx[1][content[i]]]
     ELSE [url |-> content[i]]]

\* the message-body div and the two closing tags of the user branch
MessageBody(message, at, idx) ==
  [kind |-> "body", at |-> at, id |-> message.id,
   urls |-> IF message.contentType = "html" THEN ReplaceImages(message.imageUrls, idx)
            ELSE [i \in 1..Len(message.imageUrls) |-> [url |-> message.imageUrls[i]]],
   text |-> IF message.contentType = "html" THEN message.text
            ELSE EscapeHtml(message.text)]

(***************************************************************************)
(* Attachments                                                             *)
(***************************************************************************)
\* The content of an attachment is JSON text: text that does not parse, the
\* text null, or the text of an object.  An attachment is [content |-> <<>>]
\* when its content is missing, null or empty.
InvalidJson == [json |-> "invalid", messageId |-> <<>>, messagePreview |-> ""]
NullJson == [json |-> "null", messageId |-> <<>>, messagePreview |-> ""]
ObjectJson(messageId, preview) ==
  [json |-> "object", messageId |-> messageId, messagePreview |-> preview]

\* JSON.parse(att.content): throws, or returns null (<<>>) or the object
JsonParse(text) ==
  [threw |-> text.json = "invalid",
   value |-> IF text.json = "object"
               THEN <<[messageId |-> text.messageId,
                       messagePreview |-> text.messagePreview]>>
               ELSE <<>>]

\* m.createdDateTime || m.lastModifiedDateTime
Timestamp(m) ==
  IF m.createdDateTime # <<>> THEN m.createdDateTime ELSE m.lastModifiedDateTime

\* attachmentTimestamp: that of the first message with id attObj.messageId,
\* and that of the message the attachment belongs to when there is none
AttachmentTimestampOwn(attObj, message, all) == Timestamp(message)
AttachmentTimestamp(attObj, message, all) ==
  LET hits == {i \in 1..Len(all) :
                 attObj.messageId # <<>> /\ all[i].id = attObj.messageId[1]}
  IN IF hits = {} THEN Timestamp(message)
     ELSE Timestamp(all[CHOOSE i \in hits : \A j \in hits : i <= j])

\* what one round of the loop over message.attachments writes
AttachmentHtml(att, k, message, at, all) ==
  IF att.content = <<>> \/ JsonParse(att.content[1]).threw
       \/ JsonParse(att.content[1]).value = <<>>
    THEN <<>>
    ELSE LET attObj == JsonParse(att.content[1]).value[1]
         IN << [kind |-> "attachment", at |-> at, nr |-> k,
                timestamp |-> AttachmentTimestamp(attObj, message, all),
                preview |-> attObj.messagePreview] >>

\* what one round of the loop over message.attachments logs
AttachmentLog(att, k, at) ==
  IF att.content = <<>>
    THEN <<[what |-> "Attachment content is null or empty", at |-> at, nr |-> k]>>
  ELSE IF JsonParse(att.content[1]).threw
    THEN <<[what |-> "Attachment parse error", at |-> at, nr |-> k]>>
  ELSE IF JsonParse(att.content[1]).value = <<>>
    THEN <<[what |-> "Attachment parsed object is null", at |-> at, nr |-> k]>>
  ELSE <<>>

AttachmentsHtml(message, at, all) ==
  Flatten([k \in 1..Len(message.attachments) |->
             AttachmentHtml(message.attachments[k], k, message, at, all)])

AttachmentsLog(message, at) ==
  Flatten([k \in 1..Len(message.attachments) |->
             AttachmentLog(message.attachments[k], k, at)])

(***************************************************************************)
(* Reactions                                                               *)
(***************************************************************************)
\* the emoticon metadata file: categories of emoticons, each with shortcuts
EmoticonData ==
  [categories |->
     << [emoticons |->
           << [id |-> "smile", etag |-> "e1",
               shortcuts |-> << <<"(", "S", "m", "i", "l", "e", ")">> >>],
              [id |-> "yes", etag |-> "e2",
               shortcuts |-> << <<"(", "y", ")">>, <<"(", "Y", "e", "s", ")">> >>] >>],
        [emoticons |->
           << [id |-> "thumbs", etag |-> "e3",
               shortcuts |-> << <<"(", "y", "e", "s", ")">>,
                                <<"(", "l", "o", "l", ")">> >>],
              [id |-> "laugh", etag |-> "e4",
               shortcuts |-> << <<"(", "L", "O", "L", ")">> >>] >>] >>]

\* String.prototype.toLowerCase, on the letters the model uses
LowerChar(c) ==
  CASE c = "E" -> "e" [] c = "I" -> "i" [] c = "K" -> "k" [] c = "L" -> "l"
    [] c = "N" -> "n" [] c = "O" -> "o" [] c = "S" -> "s" [] c = "U" -> "u"
    [] c = "Y" -> "y" [] OTHER -> c
ToLowerCase(s) == [i \in 1..Len(s) |-> LowerChar(s[i])]

\* shortcut
Shortcut(displayName) ==
  IF ToLowerCase(displayName) = <<"l", "i", "k", "e">>
    THEN <<"(", "y", "e", "s", ")">>
    ELSE <<"(">> \o ToLowerCase(displayName) \o <<")">>

\* cat.emoticons.find(e => e.shortcuts.some(s => s.toLowerCase() === shortcut))
FindEmoticon(emoticons, shortcut) ==
  LET hits == {i \in 1..Len(emoticons) :
                 \E k \in 1..Len(emoticons[i].shortcuts) :
                   ToLowerCase(emoticons[i].shortcuts[k]) = shortcut}
  IN IF hits = {} THEN <<>>
     ELSE <<emoticons[CHOOSE i \in hits : \A j \in hits : i <= j]>>

\* foundEmoticon: the loop over the categories, left at the first find
RECURSIVE FoundEmoticonIn(_, _)
FoundEmoticonIn(categories, shortcut) ==
  IF categories = <<>> THEN <<>>
  ELSE IF FindEmoticon(Head(categories).emoticons, shortcut) # <<>>
    THEN FindEmoticon(Head(categories).emoticons, shortcut)
  ELSE FoundEmoticonIn(Tail(categories), shortcut)

FoundEmoticon(shortcut) == FoundEmoticonIn(EmoticonData.categories, shortcut)

\* getEmoticonFilePath, within the output directory
GetEmoticonFilePath(id, etag) == id \o "_" \o etag \o ".png"

\* what one round of the loop over message.reactions writes
ReactionHtml(displayName, k, at) ==
  LET foundEmoticon == FoundEmoticon(Shortcut(displayName))
  IN IF foundEmoticon = <<>> THEN <<>>
     ELSE << [kind |-> "reaction", at |-> at, nr |-> k,
              alt |-> Shortcut(displayName),
              src |-> GetEmoticonFilePath(foundEmoticon[1].id,
                                          foundEmoticon[1].etag)] >>

\* what one round of the loop over message.reactions logs
ReactionLog(displayName, k, at) ==
  IF FoundEmoticon(Shortcut(displayName)) = <<>>
    THEN <<[what |-> "Reaction emoticon not found", at |-> at, nr |-> k]>>
    ELSE <<>>

ReactionsHtml(message, at) ==
  Flatten([k \in 1..Len(message.reactions) |->
             ReactionHtml(message.reactions[k], k, at)])

ReactionsLog(message, at) ==
  Flatten([k \in 1..Len(message.reactions) |->
             ReactionLog(message.reactions[k], k, at)])

Profiles == {"me"}

\* GET /me, getPages, read images.json, open index.html, write the head,
\* merge the pages and sort; the read of images.json is caught when it fails
CreateHtmlStart(readable) ==
  /\ stage = "createHtml"
  /\ \E me \in Profiles : myId' = me
  /\ \E result \in GetPages :
       /\ pages' = result
       /\ \E sorted \in SortResults(Merge(result)) : allMessages' = sorted
  /\ imageIndex' = IF readable THEN <<files[ImagesJson]>> ELSE <<>>
  /\ console' = IF readable THEN <<>>
                ELSE <<[what |-> "couldn't read images index", at |-> 0, nr |-> 0]>>
  /\ files' = WriteFile(files, IndexHtml, "index.html")
  /\ html' = <<[kind |-> "head"]>>
  /\ msgIdx' = 0
  /\ prevSender' = <<>>
  /\ prevTime' = <<>>
  /\ prevHadReaction' = FALSE
  /\ lastMessageDay' = <<>>
  /\ stage' = "rendering"
  /\ UNCHANGED <<cliVars, emoVars, pureVars, streamVars, thrown, runError,
                 fetchVars, imageVars>>

\* images.json is there and is read
CreateHtmlBegin ==
  /\ ImagesJson \in DOMAIN files
  /\ CreateHtmlStart(TRUE)

\* images.json is not there, or the read of it fails
CreateHtmlNoIndex == CreateHtmlStart(FALSE)

\* the GET of the profile rejects: createHtml rejects, and so does run
CreateHtmlFail ==
  /\ stage = "createHtml"
  /\ \E e \in Errors :
       /\ thrown' = <<[in |-> "createHtml", error |-> e]>>
       /\ runError' = IF RunNext("createHtml", TRUE) = "rejected" THEN e ELSE runError
  /\ stage' = RunNext("createHtml", TRUE)
  /\ UNCHANGED <<cliVars, emoVars, pureVars, streamVars, files, fetchVars,
                 pages, imageVars,
                 htmlVars>>

\* the message-group div, with the message-header div when the header is shown
MessageGroup(message, at, showHeader, hadReaction, me) ==
  [kind |-> "bubble", at |-> at, id |-> message.id, header |-> showHeader,
   group |-> GroupClass(message, showHeader, hadReaction, me)]

\* what the branch of a message from a user writes
UserHtml(message, at, showHeader, hadReaction, me, idx, all) ==
  LET right == message.from[1].user[1].id = me IN
    << MessageGroup(message, at, showHeader, hadReaction, me),
       [kind |-> "message", at |-> at,
        class |-> IF right THEN "message-right" ELSE "message-left"] >>
    \o (IF Len(message.attachments) > 0
          THEN <<[kind |-> "attachment-container", at |-> at]>>
               \o AttachmentsHtml(message, at, all)
               \o <<[kind |-> "end-attachment-container", at |-> at]>>
          ELSE <<>>)
    \o (IF Len(message.reactions) > 0
          THEN <<[kind |-> "reactions", at |-> at,
                  class |-> IF right THEN "reaction-right" ELSE "reaction-left"]>>
               \o ReactionsHtml(message, at)
               \o <<[kind |-> "end-reactions", at |-> at]>>
          ELSE <<>>)
    \o <<MessageBody(message, at, idx)>>

\* what the branch of a message from an application writes
ApplicationHtml(message, at, showHeader, hadReaction, me, all) ==
    << MessageGroup(message, at, showHeader, hadReaction, me),
       [kind |-> "message", at |-> at, class |-> "message-left"] >>
    \o AttachmentsHtml(message, at, all)
    \o (IF Len(message.reactions) > 0
          THEN <<[kind |-> "reactions", at |-> at, class |-> "reaction-left"]>>
               \o ReactionsHtml(message, at)
               \o <<[kind |-> "end-reactions", at |-> at]>>
          ELSE <<>>)
    \o <<[kind |-> "end-div", at |-> at]>>

\* what the round of a message writes after the date separator
MessageHtml(message, at, showHeader, hadReaction, me, idx, all) ==
  IF message.from = <<>> THEN <<>>
  ELSE IF message.from[1].user # <<>>
    THEN UserHtml(message, at, showHeader, hadReaction, me, idx, all)
  ELSE IF message.from[1].application # <<>>
    THEN ApplicationHtml(message, at, showHeader, hadReaction, me, all)
  ELSE <<>>

\* what the round of a message logs
MessageLog(message, at) ==
  IF message.from = <<>> THEN <<>>
  ELSE IF message.from[1].user # <<>> \/ message.from[1].application # <<>>
    THEN AttachmentsLog(message, at) \o ReactionsLog(message, at)
  ELSE <<[what |-> "couldn't determine message sender", at |-> at, nr |-> 0]>>

\* one round of the loop over the sorted messages
CreateHtmlMessage ==
  /\ stage = "rendering"
  /\ msgIdx < Len(allMessages)
  /\ LET message == allMessages[msgIdx + 1]
         currentTime == CurrentTime(message)
         senderId == SenderId(message)
         showHeader == ShowHeader(prevSender, prevTime, senderId, currentTime)
         separator ==
           IF lastMessageDay # <<MessageDay(currentTime)>>
             THEN <<[kind |-> "date", at |-> msgIdx + 1, day |-> MessageDay(currentTime)]>>
             ELSE <<>>
     IN /\ html' = html \o separator
                     \o MessageHtml(message, msgIdx + 1, showHeader,
                                    prevHadReaction, myId, imageIndex, allMessages)
        /\ console' = console \o MessageLog(message, msgIdx + 1)
        /\ lastMessageDay' = <<MessageDay(currentTime)>>
        /\ prevSender' = senderId
        /\ prevTime' = <<currentTime>>
        /\ prevHadReaction' = (Len(message.reactions) > 0)
  /\ msgIdx' = msgIdx + 1
  /\ UNCHANGED <<cliVars, emoVars, pureVars, streamVars, stage, thrown,
                 runError, files,
                 fetchVars, pages, imageVars, myId, imageIndex, allMessages>>

\* write foot, close
CreateHtmlEnd ==
  /\ stage = "rendering"
  /\ msgIdx = Len(allMessages)
  /\ html' = Append(html, [kind |-> "foot"])
  /\ stage' = RunNext("createHtml", FALSE)
  /\ UNCHANGED <<cliVars, emoVars, pureVars, streamVars, thrown, runError,
                 files, fetchVars,
                 pages, imageVars, myId, imageIndex, allMessages, msgIdx,
                 prevSender, prevTime, prevHadReaction, lastMessageDay, console>>

\* Backup.run does not take a step
RunUntouched ==
  UNCHANGED <<stage, thrown, runError, files, fetchVars, pages, imageVars,
              streamVars, htmlVars, pureVars>>

(***************************************************************************)
(* The emoticon downloader (dl-emoticons.js)                               *)
(***************************************************************************)
MetadataFile == "metadata.json"

\* metadataContent.categories.flatMap(category => category.emoticons)
Emoticons ==
  Flatten([c \in 1..Len(EmoticonData.categories) |->
             EmoticonData.categories[c].emoticons])

\* fileName
EmoticonFile(emoticon) == emoticon.id \o "_" \o emoticon.etag \o ".png"

\* checkForExistingPngs: some file of the directory ends in .png
CheckForExistingPngs(fs) ==
  \E e \in 1..Len(Emoticons) : EmoticonFile(Emoticons[e]) \in DOMAIN fs

\* the ways a download ends: the response has status 200 and is written, it
\* has another status, or the request fails
Outcomes == {"finish", "status", "error"}

\* downloadFile: the write stream creates the file; on a status other than
\* 200 it is closed, on an error of the request it is closed and unlinked
DownloadFile(fs, outputPath, content, outcome) ==
  IF outcome = "finish" THEN WriteFile(fs, outputPath, content)
  ELSE IF outcome = "status" THEN WriteFile(fs, outputPath, "")
  ELSE [f \in DOMAIN fs \ {outputPath} |-> fs[f]]

\* the metadata and at least one icon are there: nothing is downloaded
EmoAlreadyExist ==
  /\ emo = "main"
  /\ MetadataFile \in DOMAIN assets /\ CheckForExistingPngs(assets)
  /\ emo' = "returned"
  /\ UNCHANGED <<assets, processed, invocation, attempts, cliVars>>
  /\ RunUntouched

\* the metadata is downloaded unless the file is there, then read and parsed
EmoMetadata ==
  /\ emo = "main"
  /\ ~(MetadataFile \in DOMAIN assets /\ CheckForExistingPngs(assets))
  /\ \E outcome \in Outcomes :
       LET fs == IF MetadataFile \in DOMAIN assets THEN assets
                 ELSE DownloadFile(assets, MetadataFile, "metadata", outcome)
           downloaded == MetadataFile \in DOMAIN assets \/ outcome = "finish"
       IN /\ assets' = fs
          /\ attempts' =
               IF MetadataFile \in DOMAIN assets THEN attempts
               ELSE Append(attempts, [invocation |-> invocation,
                                      file |-> MetadataFile, outcome |-> outcome])
          /\ emo' = IF downloaded /\ fs[MetadataFile] = "metadata"
                      THEN "loop" ELSE "rejected"
  /\ processed' = 0
  /\ UNCHANGED <<invocation, cliVars>>
  /\ RunUntouched

\* an emoticon whose file is there is skipped
EmoSkipExisting ==
  /\ emo = "loop"
  /\ processed < Len(Emoticons)
  /\ EmoticonFile(Emoticons[processed + 1]) \in DOMAIN assets
  /\ processed' = processed + 1
  /\ UNCHANGED <<emo, assets, invocation, attempts, cliVars>>
  /\ RunUntouched

\* an emoticon is downloaded; a failed download is logged
EmoDownload ==
  /\ emo = "loop"
  /\ processed < Len(Emoticons)
  /\ LET fileName == EmoticonFile(Emoticons[processed + 1]) IN
       /\ fileName \notin DOMAIN assets
       /\ \E outcome \in Outcomes :
            /\ assets' = DownloadFile(assets, fileName, "png", outcome)
            /\ attempts' = Append(attempts, [invocation |-> invocation,
                                             file |-> fileName,
                                             outcome |-> outcome])
  /\ processed' = processed + 1
  /\ UNCHANGED <<emo, invocation, cliVars>>
  /\ RunUntouched

\* the loop is over
EmoDone ==
  /\ emo = "loop"
  /\ processed = Len(Emoticons)
  /\ emo' = "returned"
  /\ UNCHANGED <<assets, processed, invocation, attempts, cliVars>>
  /\ RunUntouched

(***************************************************************************)
(* The CLI: main, which asks for the token and calls Backup.run            *)
(***************************************************************************)
\* the characters of an error message
Chars(message) ==
  CASE message = "Network Error" ->
         <<"N", "e", "t", "w", "o", "r", "k", " ", "E", "r", "r", "o", "r">>
    [] message = "401 Unauthorized" ->
         <<"4", "0", "1", " ", "U", "n", "a", "u", "t", "h", "o", "r", "i", "z", "e", "d">>
    [] message = "unauthorized" ->
         <<"u", "n", "a", "u", "t", "h", "o", "r", "i", "z", "e", "d">>
    [] message = "invalid token" ->
         <<"i", "n", "v", "a", "l", "i", "d", " ", "t", "o", "k", "e", "n">>
    [] message = "missing value" ->
         <<"m", "i", "s", "s", "i", "n", "g", " ", "v", "a", "l", "u", "e">>

\* String.prototype.includes
Includes(s, part) ==
  \E i \in 1..(Len(s) - Len(part) + 1) : SubSeq(s, i, i + Len(part) - 1) = part

\* error.message.includes('unauthorized') || error.message.includes('invalid token')
TokenErrorAnyCase(message) ==
  Includes(ToLowerCase(Chars(message)), <<"u", "n", "a", "u", "t", "h", "o", "r", "i", "z", "e", "d">>)
  \/ Includes(ToLowerCase(Chars(message)), <<"i", "n", "v", "a", "l", "i", "d", " ", "t", "o", "k", "e", "n">>)
TokenError(message) ==
  Includes(Chars(message), <<"u", "n", "a", "u", "t", "h", "o", "r", "i", "z", "e", "d">>)
  \/ Includes(Chars(message), <<"i", "n", "v", "a", "l", "i", "d", " ", "t", "o", "k", "e", "n">>)

\* new Backup(...) and backup.run(): the locals of run and of its stages are
\* fresh, the target directory is as it was left
RunCalled ==
  /\ stage' = "createTarget"
  /\ url' = BaseUrl
  /\ page' = 0
  /\ lastRes' = <<>>
  /\ writes' = <<>>
  /\ thrown' = <<>>
  /\ runError' = "none"
  /\ downloads' = <<>>
  /\ UNCHANGED <<files, pages, scan, index, imageIdx, streamVars, htmlVars,
                 pureVars, emoVars>>

\* setStoredToken: the write of the token file, a failure of which is only
\* warned about
SetStoredToken(new, written) ==
  token' = IF written THEN <<new>> ELSE token

\* clearStoredToken: the removal of the token file, a failure of which is only
\* warned about (and not even that when there is no file)
ClearStoredToken(removed) ==
  token' = IF removed THEN <<>> ELSE token

\* ask: the answer, or the rejection for an empty answer
Answers == {<<>>, <<"answer">>}

\* downloadEmoticons: the downloader is run in a child process
CliSpawn ==
  /\ cli = "main"
  /\ cli' = "downloadEmoticons"
  /\ emo' = "main"
  /\ invocation' = invocation + 1
  /\ processed' = 0
  /\ UNCHANGED <<token, runs, mainError, assets, attempts>>
  /\ RunUntouched

\* the child process closes, with code 0 when its main returned
CliDownloadEmoticons ==
  /\ cli = "downloadEmoticons"
  /\ emo \in {"returned", "rejected"}
  /\ IF emo = "returned"
       THEN cli' = "ask" /\ UNCHANGED mainError
       ELSE cli' = "rejected" /\ mainError' = "Emoticons download failed"
  /\ UNCHANGED <<token, runs, emoVars>>
  /\ RunUntouched

\* the chat id and the target directory are asked for
CliAsk ==
  /\ cli = "ask"
  /\ \E chatId \in Answers, target \in Answers :
       IF chatId = <<>> \/ target = <<>>
         THEN cli' = "rejected" /\ mainError' = "missing value"
         ELSE cli' = "getAuthToken" /\ UNCHANGED mainError
  /\ UNCHANGED <<token, runs, emoVars>>
  /\ RunUntouched

\* getAuthToken with a stored token, and the first run
CliStoredToken ==
  /\ cli = "getAuthToken"
  /\ token # <<>>
  /\ runs' = Append(runs, [token |-> token[1], error |-> "none", stored |-> TRUE])
  /\ cli' = "run"
  /\ UNCHANGED <<token, mainError>>
  /\ RunCalled

\* getAuthToken without one: the token is asked for and stored, and the
\* first run is made; without an answer the catch rethrows
CliAskToken ==
  /\ cli = "getAuthToken"
  /\ token = <<>>
  /\ \E answer \in Answers, written \in BOOLEAN :
       IF answer = <<>>
         THEN /\ cli' = "rejected"
              /\ mainError' = "missing value"
              /\ UNCHANGED <<token, runs, emoVars>>
              /\ RunUntouched
         ELSE /\ SetStoredToken("jwt", written)
              /\ runs' = Append(runs, [token |-> "jwt", error |-> "none",
                                       stored |-> written])
              /\ cli' = "run"
              /\ UNCHANGED mainError
              /\ RunCalled

\* run is fulfilled, and so is main
CliFulfilled ==
  /\ cli \in {"run", "retry"}
  /\ stage = "done"
  /\ cli' = "fulfilled"
  /\ UNCHANGED <<token, runs, mainError, emoVars>>
  /\ RunUntouched

\* the first run rejects: a token error clears the stored token and asks for
\* a new one, any other error is rethrown
CliCatch ==
  /\ cli = "run"
  /\ stage = "rejected"
  /\ runs' = [runs EXCEPT ![Len(runs)].error = runError]
  /\ IF TokenError(runError)
       THEN /\ \E removed \in BOOLEAN : ClearStoredToken(removed)
            /\ cli' = "askNew"
            /\ UNCHANGED mainError
       ELSE /\ cli' = "rejected"
            /\ mainError' = runError
            /\ UNCHANGED token
  /\ UNCHANGED emoVars
  /\ RunUntouched

\* the new token is entered and stored, and the second run is made;
\* without an answer main rejects
CliRetry ==
  /\ cli = "askNew"
  /\ \E answer \in Answers, written \in BOOLEAN :
       IF answer = <<>>
         THEN /\ cli' = "rejected"
              /\ mainError' = "missing value"
              /\ UNCHANGED <<token, runs, emoVars>>
              /\ RunUntouched
         ELSE /\ SetStoredToken("new jwt", written)
              /\ runs' = Append(runs, [token |-> "new jwt", error |-> "none",
                                       stored |-> written])
              /\ cli' = "retry"
              /\ UNCHANGED mainError
              /\ RunCalled

\* the second run rejects: main rejects with its error
CliPropagate ==
  /\ cli = "retry"
  /\ stage = "rejected"
  /\ runs' = [runs EXCEPT ![Len(runs)].error = runError]
  /\ cli' = "rejected"
  /\ mainError' = runError
  /\ UNCHANGED <<token, emoVars>>
  /\ RunUntouched

(***************************************************************************)
(* Specifications                                                          *)
(***************************************************************************)
InitLocals ==
  /\ thrown = <<>>
  /\ runError = "none"
  /\ pages = <<>>
  /\ myId = ""
  /\ imageIndex = <<>>
  /\ allMessages = <<>>
  /\ msgIdx = 0
  /\ prevSender = <<>>
  /\ prevTime = <<>>
  /\ prevHadReaction = FALSE
  /\ lastMessageDay = <<>>
  /\ html = <<>>
  /\ console = <<>>

InitImages ==
  /\ scan = 0
  /\ index = <<>>
  /\ imageIdx = 0
  /\ downloads = <<>>
  /\ streaming = <<>>
  /\ writing = {}

\* escapeHtml is not being exercised on its own
InitPure ==
  /\ string = <<>>
  /\ escaped = <<>>

\* run is called directly, not by the CLI
InitCli ==
  /\ cli = "none"
  /\ token = <<>>
  /\ runs = <<>>
  /\ mainError = "none"

\* the emoticon downloader is not running
InitEmoticons ==
  /\ emo = "none"
  /\ assets = <<>>
  /\ processed = 0
  /\ invocation = 0
  /\ attempts = <<>>

\* a run on a target directory that does not exist yet; getImages has just
\* written images.json when createHtml reads it, and the read succeeds
Init ==
  /\ stage = "createTarget"
  /\ files = <<>>
  /\ url = BaseUrl
  /\ page = 0
  /\ lastRes = <<>>
  /\ writes = <<>>
  /\ InitImages
  /\ InitLocals
  /\ InitPure
  /\ InitCli
  /\ InitEmoticons

GetMessages == GetMessagesOk(MaxPages)

Next ==
  \/ CreateTarget
  \/ GetMessages
  \/ GetMessagesFail
  \/ GetImagesBegin
  \/ GetImagesSkip
  \/ GetImagesDownload
  \/ GetImagesPiped
  \/ GetImagesStreamError
  \/ WriteStreamFinish
  \/ GetImagesFail
  \/ GetImagesEnd
  \/ CreateHtmlBegin
  \/ CreateHtmlFail
  \/ CreateHtmlMessage
  \/ CreateHtmlEnd

Spec == Init /\ [][Next]_vars

(***************************************************************************)
(* The long run: getMessages picked up after LongStart responses, of which *)
(* the first was a page of messages and the others were empty pages with a *)
(* count and a next link.                                                  *)
(***************************************************************************)
InitLong ==
  /\ stage = "getMessages"
  /\ files = WriteFile(<<>>, MessagesFile(PageNum(0)), PageA)
  /\ url = "next-a"
  /\ page = LongStart
  /\ lastRes = <<Response(<<>>, <<2>>, "next-a")>>
  /\ writes = <<[response |-> 0, pageNum |-> PageNum(0)]>>
  /\ InitImages
  /\ InitLocals
  /\ InitPure
  /\ InitCli
  /\ InitEmoticons

GetMessagesLong == GetMessagesOk(LongStart + LongPages)

NextLong ==
  \/ GetMessagesLong
  \/ GetMessagesFail
  \/ GetImagesBegin
  \/ GetImagesSkip
  \/ GetImagesDownload
  \/ GetImagesPiped
  \/ GetImagesStreamError
  \/ WriteStreamFinish
  \/ GetImagesFail
  \/ GetImagesEnd
  \/ CreateHtmlBegin
  \/ CreateHtmlFail
  \/ CreateHtmlMessage
  \/ CreateHtmlEnd

SpecLong == InitLong /\ [][NextLong]_vars

(***************************************************************************)
(* The renderer on its own: createHtml is about to start on a directory    *)
(* whose page file holds up to MaxMsgs plain-text messages, with or        *)
(* without createdDateTime, for which the comparison function of the sort  *)
(* is consistent (the order after the sort is then the one the language    *)
(* defines).                                                               *)
(***************************************************************************)
HtmlTimes == {DayMs - MinuteMs - 1, DayMs - 1, DayMs}
HtmlSenders == {<<User("me", "Ann")>>, <<User("u2", "Bob")>>, <<NoIdentity>>}

HtmlMessages(n) ==
  {[i \in 1..n |->
      Message(i, IF hasCreated[i] THEN <<time[i]>> ELSE <<>>, <<time[i]>>,
              from[i], "text", <<>>, <<>>)] :
     time \in [1..n -> HtmlTimes], hasCreated \in [1..n -> BOOLEAN],
     from \in [1..n -> HtmlSenders]}

InitHtml ==
  /\ stage = "createHtml"
  /\ \E n \in 1..MaxMsgs : \E msgs \in HtmlMessages(n) :
       /\ ConsistentComparator(msgs)
       /\ files = WriteFile(WriteFile(<<>>, MessagesFile(PageNum(0)), msgs),
                            ImagesJson, <<>>)
       /\ lastRes = <<Response(msgs, <<>>, "")>>
  /\ url = BaseUrl
  /\ page = 1
  /\ writes = <<[response |-> 0, pageNum |-> PageNum(0)]>>
  /\ pages = <<MessagesFile(PageNum(0))>>
  /\ InitImages
  /\ thrown = <<>>
  /\ runError = "none"
  /\ myId = ""
  /\ imageIndex = <<>>
  /\ allMessages = <<>>
  /\ msgIdx = 0
  /\ prevSender = <<>>
  /\ prevTime = <<>>
  /\ prevHadReaction = FALSE
  /\ lastMessageDay = <<>>
  /\ html = <<>>
  /\ console = <<>>
  /\ InitPure
  /\ InitCli
  /\ InitEmoticons

NextHtml ==
  \/ CreateHtmlBegin
  \/ CreateHtmlFail
  \/ CreateHtmlMessage
  \/ CreateHtmlEnd

SpecHtml == InitHtml /\ [][NextHtml]_vars

(***************************************************************************)
(* The bubbles: createHtml is about to start on a directory whose page     *)
(* file holds up to MaxRender messages from users, applications and        *)
(* undetermined senders, with reactions, attachments and html or text      *)
(* bodies, one second apart; message ids repeat, as they do when a page    *)
(* was written twice; images.json is missing or holds an entry for one of  *)
(* the two image URLs, and the read of it may fail.                        *)
(***************************************************************************)
MaxRender == 2

Lol == <<"L", "O", "L">>
Nope == <<"N", "o", "p", "e">>
UpperLike == <<"L", "I", "K", "E">>

Template(id, from, contentType, imageUrls, text, reactions, attachments) ==
  [Message(id, <<>>, <<>>, from, contentType, imageUrls, reactions)
     EXCEPT !.text = text, !.attachments = attachments]

RenderSenders ==
  {<<User("me", "Ann")>>, <<User("u2", "Bob")>>, <<Application("me")>>,
   <<NoIdentity>>, <<>>}

RenderAttachments ==
  { << [content |-> <<>>], [content |-> <<ObjectJson(<<>>, "p1")>>] >>,
    << [content |-> <<InvalidJson>>], [content |-> <<ObjectJson(<<1>>, "p2")>>] >>,
    << [content |-> <<NullJson>>], [content |-> <<ObjectJson(<<9>>, "p3")>>] >>,
    << [content |-> <<ObjectJson(<<2>>, "p4")>>] >> }

RenderTemplates ==
  {Template(1, from, "text", <<>>, <<"a", "<", "b">>, reactions, <<>>) :
     from \in RenderSenders, reactions \in {<<>>, <<Like>>}}
  \cup
  {Template(2, from, "text", <<>>, <<"&">>, reactions, <<>>) :
     from \in {<<User("me", "Ann")>>, <<Application("me")>>},
     reactions \in {<<Nope, Lol>>, <<UpperLike, Nope>>}}
  \cup
  {Template(1, from, "html", <<>>, <<"<", "b", ">">>, <<Like>>, attachments) :
     from \in {<<User("u2", "Bob")>>, <<Application("me")>>},
     attachments \in RenderAttachments}
  \cup
  {Template(1, <<User("me", "Ann")>>, "html", <<"chats/img1", "chats/img2">>,
            <<"<", "b", ">">>, <<>>, <<>>),
   Template(2, <<User("u2", "Bob")>>, "text", <<"chats/img1">>, <<"'">>,
            <<>>, <<>>)}

\* the i-th message of the page: the times are one second apart
Timed(template, i, hasCreated) ==
  [template EXCEPT !.createdDateTime = IF hasCreated THEN <<1000 * i>> ELSE <<>>,
                   !.lastModifiedDateTime = <<1000 * i + 1>>]

RenderMessages(n) ==
  {[i \in 1..n |-> Timed(t[i], i, hasCreated)] :
     t \in [1..n -> RenderTemplates], hasCreated \in BOOLEAN}

\* images.json as an earlier harvest left it
PartialIndex == [u \in {"chats/img1"} |-> TargetFilename(0)]

InitRender ==
  /\ stage = "createHtml"
  /\ \E n \in 1..MaxRender : \E msgs \in RenderMessages(n) :
       /\ \/ files = WriteFile(<<>>, MessagesFile(PageNum(0)), msgs)
          \/ files = WriteFile(WriteFile(<<>>, MessagesFile(PageNum(0)), msgs),
                               ImagesJson, PartialIndex)
       /\ lastRes = <<Response(msgs, <<>>, "")>>
  /\ url = BaseUrl
  /\ page = 1
  /\ writes = <<[response |-> 0, pageNum |-> PageNum(0)]>>
  /\ InitImages
  /\ InitLocals
  /\ InitPure
  /\ InitCli
  /\ InitEmoticons

NextRender ==
  \/ CreateHtmlBegin
  \/ CreateHtmlNoIndex
  \/ CreateHtmlFail
  \/ CreateHtmlMessage
  \/ CreateHtmlEnd

SpecRender == InitRender /\ [][NextRender]_vars

(***************************************************************************)
(* escapeHtml on its own, called with a string of up to MaxLen characters  *)
(***************************************************************************)
MaxLen == 4

EscapeChars == {"<", ">", "&", "\"", "'", "a", "l", "t", ";"}

InitEscape ==
  /\ stage = "escapeHtml"
  /\ files = <<>>
  /\ url = BaseUrl
  /\ page = 0
  /\ lastRes = <<>>
  /\ writes = <<>>
  /\ InitImages
  /\ InitLocals
  /\ \E n \in 0..MaxLen : string \in [1..n -> EscapeChars]
  /\ escaped = <<>>
  /\ InitCli
  /\ InitEmoticons

EscapeHtmlCall ==
  /\ stage = "escapeHtml"
  /\ escaped = <<>>
  /\ escaped' = <<EscapeHtml(string)>>
  /\ UNCHANGED <<cliVars, emoVars, string, stage, thrown, runError, files,
                 fetchVars, pages, imageVars, streamVars, htmlVars>>

NextEscape == EscapeHtmlCall

SpecEscape == InitEscape /\ [][NextEscape]_vars

(***************************************************************************)
(* A second run: the target directory holds what an earlier run left, which *)
(* fetched PageB and then PageA.                                           *)
(***************************************************************************)
EarlierIndex ==
  [u \in {"chats/img1", "chats/img2"} |->
     IF u = "chats/img2" THEN TargetFilename(0) ELSE TargetFilename(1)]

EarlierFiles ==
  WriteFile(WriteFile(WriteFile(WriteFile(WriteFile(WriteFile(<<>>,
    MessagesFile(PageNum(0)), PageB),
    MessagesFile(PageNum(1)), PageA),
    TargetFilename(0), "chats/img2"),
    TargetFilename(1), "chats/img1"),
    ImagesJson, EarlierIndex),
    IndexHtml, "index.html")

InitRerun ==
  /\ stage = "createTarget"
  /\ files = EarlierFiles
  /\ url = BaseUrl
  /\ page = 0
  /\ lastRes = <<>>
  /\ writes = <<>>
  /\ InitImages
  /\ InitLocals
  /\ InitPure
  /\ InitCli
  /\ InitEmoticons

NextRerun ==
  \/ CreateTarget
  \/ GetMessages
  \/ GetMessagesFail
  \/ GetImagesBegin
  \/ GetImagesSkip
  \/ GetImagesDownload
  \/ GetImagesPiped
  \/ GetImagesStreamError
  \/ WriteStreamFinish
  \/ GetImagesFail
  \/ GetImagesEnd
  \/ CreateHtmlBegin
  \/ CreateHtmlFail
  \/ CreateHtmlMessage
  \/ CreateHtmlEnd

SpecRerun == InitRerun /\ [][NextRerun]_vars

(***************************************************************************)
(* The CLI from its start to the end of main, over a chat of at most        *)
(* CliPages pages, with the emoticons of an earlier download in place      *)
(***************************************************************************)
CliPages == 1

\* what a completed download of the emoticons leaves in the assets directory
EarlierAssets ==
  [f \in {MetadataFile} \cup
         {EmoticonFile(Emoticons[e]) : e \in 1..Len(Emoticons)} |->
     IF f = MetadataFile THEN "metadata" ELSE "png"]

InitCliMain ==
  /\ stage = "idle"
  /\ files = <<>>
  /\ url = BaseUrl
  /\ page = 0
  /\ lastRes = <<>>
  /\ writes = <<>>
  /\ InitImages
  /\ InitLocals
  /\ InitPure
  /\ cli = "main"
  /\ token \in {<<>>, <<"stored jwt">>}
  /\ runs = <<>>
  /\ mainError = "none"
  /\ emo = "none"
  /\ assets = EarlierAssets
  /\ processed = 0
  /\ invocation = 0
  /\ attempts = <<>>

GetMessagesCli == GetMessagesOk(CliPages)

NextCli ==
  \/ CliSpawn
  \/ EmoAlreadyExist
  \/ CliDownloadEmoticons
  \/ CliAsk
  \/ CliStoredToken
  \/ CliAskToken
  \/ CliFulfilled
  \/ CliCatch
  \/ CliRetry
  \/ CliPropagate
  \/ CreateTarget
  \/ GetMessagesCli
  \/ GetMessagesFail
  \/ GetImagesBegin
  \/ GetImagesSkip
  \/ GetImagesDownload
  \/ GetImagesPiped
  \/ GetImagesStreamError
  \/ WriteStreamFinish
  \/ GetImagesFail
  \/ GetImagesEnd
  \/ CreateHtmlBegin
  \/ CreateHtmlFail
  \/ CreateHtmlMessage
  \/ CreateHtmlEnd

SpecCli == InitCliMain /\ [][NextCli]_vars

(***************************************************************************)
(* The emoticon downloader, run up to MaxInvocations times on a directory  *)
(* that is empty at first, or holds an icon and no metadata                *)
(***************************************************************************)
MaxInvocations == 2

\* node dl-emoticons.js: main is called
EmoInvoke ==
  /\ emo \in {"none", "returned", "rejected"}
  /\ invocation < MaxInvocations
  /\ emo' = "main"
  /\ invocation' = invocation + 1
  /\ processed' = 0
  /\ UNCHANGED <<assets, attempts, cliVars>>
  /\ RunUntouched

\* a directory whose metadata file was removed after a download
IconOnly ==
  [f \in {EmoticonFile(Emoticons[1])} |-> "png"]

InitDownloader ==
  /\ stage = "idle"
  /\ files = <<>>
  /\ url = BaseUrl
  /\ page = 0
  /\ lastRes = <<>>
  /\ writes = <<>>
  /\ InitImages
  /\ InitLocals
  /\ InitPure
  /\ InitCli
  /\ emo = "none"
  /\ assets \in {<<>>, IconOnly}
  /\ processed = 0
  /\ invocation = 0
  /\ attempts = <<>>

NextDownloader ==
  \/ EmoInvoke
  \/ EmoAlreadyExist
  \/ EmoMetadata
  \/ EmoSkipExisting
  \/ EmoDownload
  \/ EmoDone

SpecDownloader == InitDownloader /\ [][NextDownloader]_vars

(***************************************************************************)
(* Properties                                                              *)
(***************************************************************************)
Range(seq) == {seq[i] : i \in 1..Len(seq)}

\* a numeral zero-padded to at least w digits, wider when it needs to be
RECURSIVE PadTo(_, _)
PadTo(numeral, w) ==
  IF Len(numeral) >= w THEN numeral ELSE PadTo(<<"0">> \o numeral, w)

\* the page files of the target directory
PageFiles == {f \in DOMAIN files : FilenameMatch(f)}

\* the page number embedded in the name of a page file
PageNumberOf(f) ==
  NumberOf(SubSeq(f, Len(MessagesPrefix) + 1, Len(f) - Len(JsonSuffix)))

StrictlyIncreasing(names) ==
  \A i, j \in 1..Len(names) : i < j => PageNumberOf(names[i]) < PageNumberOf(names[j])

\* the page files in the order of their page numbers
PagesInOrder == CHOOSE o \in Orderings(PageFiles) : StrictlyIncreasing(o)

\* the getMessages loop has ended without a rejected GET
Stopped ==
  /\ stage # "getMessages"
  /\ ~(thrown # <<>> /\ thrown[1].in = "getMessages")

\* C1 as claimed: pagination stops after a response exactly when the response
\* has neither a next link nor a count, and a response with a next link is
\* followed by a GET of that link.
C1Claim ==
  lastRes # <<>> =>
    /\ Stopped <=> (lastRes[1].count = <<>> /\ lastRes[1].nextLink = "")
    /\ lastRes[1].nextLink # "" => (~Stopped /\ url = lastRes[1].nextLink)

\* C1 amended: pagination goes on after a response exactly when the response
\* has both a non-zero count and a non-empty next link, and the next GET is then
\* of that link; after every other response it stops.
C1Amended ==
  lastRes # <<>> =>
    /\ Stopped <=> ~( /\ lastRes[1].count # <<>> /\ lastRes[1].count[1] # 0
                      /\ lastRes[1].nextLink # "" )
    /\ ~Stopped => url = lastRes[1].nextLink

\* a response with a next link and no count has ended the pagination
C1Witness ==
  /\ lastRes # <<>>
  /\ lastRes[1].nextLink # ""
  /\ lastRes[1].count = <<>>
  /\ stage = "getImages"

LastResponseAt ==
  IF thrown # <<>> /\ thrown[1].in = "getMessages" THEN page - 2 ELSE page - 1

C3Claim ==
  \A i, j \in 1..Len(writes) : i # j => writes[i].pageNum # writes[j].pageNum

FetchThrown == thrown # <<>> /\ thrown[1].in = "getMessages"

\* C4: when the GET of a page fails, run rejects with that error, the files
\* written are those of earlier pages, and from the failing round on no file
\* is created or changed and neither getImages nor createHtml does anything.
C4FailedFetch ==
  /\ [](FetchThrown =>
          /\ stage = "rejected"
          /\ runError = thrown[1].error
          /\ \A i \in 1..Len(writes) : writes[i].response < page - 1)
  /\ [][FetchThrown' =>
          UNCHANGED <<files, writes, pages, scan, index, downloads, allMessages, html>>]_vars

\* the GET failed after a page had been written
C4Witness ==
  /\ FetchThrown
  /\ stage = "rejected"
  /\ Len(writes) >= 1

\* C5 as claimed: getPages returns the page files in strictly increasing order
\* of their page numbers, and only names matching the pattern.
C5Claim ==
  /\ StrictlyIncreasing(pages)
  /\ \A i \in 1..Len(pages) : FilenameMatch(pages[i])

\* the order of two messages by effective timestamp
CompareEffective(a, b) == CurrentTime(a) - CurrentTime(b)

InsertEffective(sorted, m) ==
  LET k == Cardinality({i \in 1..Len(sorted) : CompareEffective(sorted[i], m) <= 0})
  IN SubSeq(sorted, 1, k) \o <<m>> \o SubSeq(sorted, k + 1, Len(sorted))

\* the stable sort by effective timestamp
RECURSIVE SortEffective(_)
SortEffective(msgs) ==
  IF msgs = <<>> THEN <<>>
  ELSE InsertEffective(SortEffective(SubSeq(msgs, 1, Len(msgs) - 1)), msgs[Len(msgs)])

\* C6 as claimed: the messages createHtml iterates over are the stable sort, by
\* effective timestamp, of the pages concatenated in page order: every message
\* once, non-decreasing, equal timestamps in page and sequence order.
C6Claim ==
  stage \in {"rendering", "done"} =>
    allMessages = SortEffective(Merge(PagesInOrder))

\* the last message before position i that got a bubble, 0 when there is none
PrevRendered(i) ==
  IF \E j \in 1..(i - 1) : Rendered(allMessages[j])
    THEN CHOOSE j \in 1..(i - 1) :
           /\ Rendered(allMessages[j])
           /\ \A k \in (j + 1)..(i - 1) : ~Rendered(allMessages[k])
    ELSE 0

Bubbles == {k \in 1..Len(html) : html[k].kind = "bubble"}

\* C7 as claimed: the header of a rendered message is suppressed exactly when
\* the previous rendered message has the same sender id and the message is at
\* most 60000 ms after it.
C7Claim ==
  \A k \in Bubbles :
    LET i == html[k].at
        j == PrevRendered(i)
    IN (~html[k].header) <=>
         /\ j > 0
         /\ SenderId(allMessages[j]) = SenderId(allMessages[i])
         /\ CurrentTime(allMessages[i]) - CurrentTime(allMessages[j]) <= MinuteMs

\* C7 amended: the header of a rendered message is suppressed exactly when the
\* message immediately before it in the sorted sequence, rendered or not, has a
\* determined sender id equal to its own and its effective timestamp minus that
\* message's is at most 60000 ms; after a message of undetermined sender the
\* header is shown.
C7Amended ==
  \A k \in Bubbles :
    LET i == html[k].at
    IN (~html[k].header) <=>
         /\ i > 1
         /\ SenderId(allMessages[i - 1]) # <<>>
         /\ SenderId(allMessages[i - 1])[1] # ""
         /\ SenderId(allMessages[i - 1]) = SenderId(allMessages[i])
         /\ CurrentTime(allMessages[i]) - CurrentTime(allMessages[i - 1]) <= MinuteMs

\* after two messages of one sender 60000 ms apart the second has no header
C7Witness ==
  \E k \in Bubbles :
    /\ ~html[k].header
    /\ Rendered(allMessages[html[k].at - 1])
    /\ CurrentTime(allMessages[html[k].at])
         - CurrentTime(allMessages[html[k].at - 1]) = MinuteMs

\* C8 as claimed: the transcript has exactly one date separator per distinct
\* calendar day among the effective timestamps of the messages.
C8Claim ==
  stage = "done" =>
    Cardinality({k \in 1..Len(html) : html[k].kind = "date"}) =
      Cardinality({MessageDay(CurrentTime(allMessages[i])) : i \in 1..Len(allMessages)})

\* the number of GETs issued for an image URL
DownloadCount(u) == Cardinality({i \in 1..Len(downloads) : downloads[i] = u})

\* the number of times getImages meets an image URL
Occurrences(u) ==
  Cardinality({i \in 1..Len(ScanUrls(pages)) : ScanUrls(pages)[i] = u})

\* C9: in one getImages pass no URL is requested twice, every URL of the index
\* was requested once, an occurrence of a URL that is in the index issues no
\* GET and leaves the index alone, and when the pass is over every URL met has
\* one download and one entry in the index written.
C9DownloadOnce ==
  /\ [](/\ \A u \in Range(downloads) : DownloadCount(u) = 1
        /\ DOMAIN index \subseteq Range(downloads)
        /\ stage = "createHtml" =>
             /\ DOMAIN index = Range(ScanUrls(pages))
             /\ Range(downloads) = Range(ScanUrls(pages))
             /\ files[ImagesJson] = index)
  /\ [][( /\ stage = "scanning"
          /\ scan < Len(ScanUrls(pages))
          /\ ScanUrls(pages)[scan + 1] \in DOMAIN index )
          => (index' = index /\ downloads' = downloads /\ files' = files)]_vars

\* a URL met three times, in two pages, has been downloaded once
C9Witness ==
  /\ stage = "createHtml"
  /\ Len(pages) = 2
  /\ \E u \in Range(downloads) : Occurrences(u) >= 3 /\ DownloadCount(u) = 1

\* the distinct elements of a sequence, in the order of their first occurrence
RECURSIVE Distinct(_)
Distinct(seq) ==
  IF seq = <<>> THEN <<>>
  ELSE LET before == Distinct(SubSeq(seq, 1, Len(seq) - 1))
       IN IF seq[Len(seq)] \in Range(before) THEN before
          ELSE Append(before, seq[Len(seq)])

\* C10 as claimed: the index written maps the k-th distinct URL met, pages in
\* page order and messages in order, to image-NNNNN with NNNNN = k-1
\* zero-padded, and no two URLs to the same file name.
C10Claim ==
  (stage = "createHtml" /\ ImagesJson \in DOMAIN files) =>
    LET written == files[ImagesJson]
        met == Distinct(ScanUrls(PagesInOrder))
    IN /\ DOMAIN written = Range(met)
       /\ \A k \in 1..Len(met) :
            written[met[k]] = ImagePrefix \o PadTo(Decimal(k - 1), PadWidth)
       /\ \A u, v \in DOMAIN written : u # v => written[u] # written[v]

(***************************************************************************)
(* getImages: the write of an image file                                   *)
(***************************************************************************)
\* C11 as claimed: a URL gets its index entry only once the write of its
\* file has completed, and while the write of an image file is in progress
\* the pipeline issues no other request and no other file operation (the
\* only steps are the end of the response stream and the end of a write).
C11Claim ==
  [][ /\ \A u \in DOMAIN index' :
           u \notin DOMAIN index => index'[u] \notin writing'
      /\ writing # {} =>
           UNCHANGED <<stage, files, downloads, page, pages, msgIdx, html>> ]_vars

\* C12 as claimed: when the download of an image has failed after other URLs
\* were downloaded in the same pass, images.json is there and maps each of
\* those URLs to the file it was downloaded to.
C12Claim ==
  (thrown # <<>> /\ thrown[1].in = "getImages" /\ DOMAIN index # {}) =>
    /\ ImagesJson \in DOMAIN files
    /\ \A u \in DOMAIN index :
         u \in DOMAIN files[ImagesJson] /\ files[ImagesJson][u] = index[u]

(***************************************************************************)
(* createHtml: the bubbles                                                 *)
(***************************************************************************)
\* the positions in index.html of the writes of a kind for the i-th message
Tokens(kind, i) ==
  {k \in 1..Len(html) : html[k].kind = kind /\ html[k].at = i}

Undetermined(message) ==
  \/ message.from = <<>>
  \/ message.from[1].user = <<>> /\ message.from[1].application = <<>>

FootWritten == msgIdx = Len(allMessages) /\ html[Len(html)].kind = "foot"

\* C13 as claimed: for every message whose sender is undetermined (from
\* absent, or with neither a user nor an application) no bubble is written
\* and an error is logged for it; and the pass goes on to the last message
\* and the foot.
C13Claim ==
  /\ \A i \in 1..msgIdx :
       Undetermined(allMessages[i]) =>
         /\ Tokens("bubble", i) = {}
         /\ \E k \in 1..Len(console) :
              /\ console[k].at = i
              /\ console[k].what = "couldn't determine message sender"
  /\ stage = "done" => FootWritten

\* the body a message is to be shown with: image URLs replaced for html,
\* characters escaped for text
ExpectedUrls(message) ==
  [j \in 1..Len(message.imageUrls) |->
     IF /\ message.contentType = "html"
        /\ imageIndex # <<>>
        /\ message.imageUrls[j] \in DOMAIN imageIndex[1]
       THEN [file |-> imageIndex[1][message.imageUrls[j]]]
       ELSE [url |-> message.imageUrls[j]]]

\* C14 as claimed: every message from a user or an application has exactly
\* one message body in the transcript, with its content, and the bodies come
\* in the order of the messages' timestamps.
C14Claim ==
  /\ \A i \in 1..msgIdx :
       Rendered(allMessages[i]) =>
         /\ Cardinality(Tokens("body", i)) = 1
         /\ \A k \in Tokens("body", i) :
              /\ html[k].urls = ExpectedUrls(allMessages[i])
              /\ allMessages[i].contentType = "html" => html[k].text = allMessages[i].text
  /\ \A k, l \in 1..Len(html) :
       (k < l /\ html[k].kind = "body" /\ html[l].kind = "body") =>
         CurrentTime(allMessages[html[k].at]) <= CurrentTime(allMessages[html[l].at])

\* C15: the group class of a bubble is that of its side (right for a user
\* with the owner's id, left otherwise, and always left for an application),
\* collapsed exactly when the header is suppressed and the message before
\* had no reaction.
C15GroupClass ==
  \A k \in 1..Len(html) :
    html[k].kind = "bubble" =>
      LET i == html[k].at
          from == allMessages[i].from[1]
          right == from.user # <<>> /\ from.user[1].id = myId
          reacted == i > 1 /\ Len(allMessages[i - 1].reactions) > 0
      IN /\ html[k].group =
              IF html[k].header \/ reacted
                THEN (IF right THEN "group-right" ELSE "group-left")
                ELSE (IF right THEN "group-right-collapsed"
                      ELSE "group-left-collapsed")
         /\ from.application # <<>> /\ from.user = <<>> =>
              html[k].group \in {"group-left", "group-left-collapsed"}

\* an application whose display name is the owner's id, with its header
\* suppressed after a message that had a reaction: full spacing, on the left
C15Witness ==
  \E k \in 1..Len(html) :
    /\ html[k].kind = "bubble"
    /\ ~html[k].header
    /\ html[k].group = "group-left"
    /\ allMessages[html[k].at].from[1].application # <<>>
    /\ allMessages[html[k].at].from[1].application[1].displayName = myId

(***************************************************************************)
(* createHtml: reactions                                                   *)
(***************************************************************************)
\* the emoticons of the metadata, category after category
AllEmoticons ==
  Flatten([c \in 1..Len(EmoticonData.categories) |->
             EmoticonData.categories[c].emoticons])

\* the emoticons a reaction name stands for: those with a shortcut that is,
\* whatever the case, (name), or (yes) for the name like
Matching(displayName) ==
  LET name == ToLowerCase(displayName)
      wanted == IF name = ToLowerCase(Like) THEN <<"(", "y", "e", "s", ")">>
                ELSE <<"(">> \o name \o <<")">>
  IN {e \in 1..Len(AllEmoticons) :
        \E k \in 1..Len(AllEmoticons[e].shortcuts) :
          ToLowerCase(AllEmoticons[e].shortcuts[k]) = wanted}

\* C16 as claimed: each reaction of a message from a user or an application
\* is shown with the icon of the first emoticon, in category order and then
\* emoticon order, that has its shortcut; a reaction with no such emoticon
\* gets no icon, and the other reactions and the message body are written
\* all the same.
C16Claim ==
  \A i \in 1..msgIdx :
    Rendered(allMessages[i]) =>
      /\ \A k \in 1..Len(allMessages[i].reactions) :
           LET hits == Matching(allMessages[i].reactions[k])
               icons == {t \in Tokens("reaction", i) : html[t].nr = k}
           IN IF hits = {} THEN icons = {}
              ELSE LET first == AllEmoticons[CHOOSE e \in hits :
                                               \A f \in hits : e <= f]
                   IN /\ Cardinality(icons) = 1
                      /\ \A t \in icons :
                           html[t].src = first.id \o "_" \o first.etag \o ".png"
      /\ Len(allMessages[i].reactions) > 0 => Tokens("body", i) # {}

(***************************************************************************)
(* escapeHtml                                                              *)
(***************************************************************************)
HtmlEntities ==
  << <<"&", AmpEntity>>, <<"<", LtEntity>>, <<">", GtEntity>>,
     <<"\"", QuotEntity>>, <<"'", AposEntity>> >>

IsPrefix(p, s) == Len(p) <= Len(s) /\ SubSeq(s, 1, Len(p)) = p

\* the five entities put back into characters, in one pass from the left
RECURSIVE Unescape(_)
Unescape(s) ==
  IF s = <<>> THEN <<>>
  ELSE LET hits == {e \in 1..Len(HtmlEntities) : IsPrefix(HtmlEntities[e][2], s)}
       IN IF hits = {} THEN <<Head(s)>> \o Unescape(Tail(s))
          ELSE LET e == CHOOSE h \in hits : TRUE
               IN <<HtmlEntities[e][1]>>
                    \o Unescape(SubSeq(s, Len(HtmlEntities[e][2]) + 1, Len(s)))

\* C17: unescaping escapeHtml(s) gives s back, and escapeHtml(s) has none of
\* the characters <, >, " and ' in it.
C17RoundTrip ==
  escaped # <<>> =>
    /\ Unescape(escaped[1]) = string
    /\ \A i \in 1..Len(escaped[1]) : escaped[1][i] \notin {"<", ">", "\"", "'"}

\* escapeHtml has been called with text that reads as an entity
C17Witness ==
  /\ escaped # <<>>
  /\ string = <<"&", "l", "t", ";">>
  /\ escaped[1] = <<"&", "a", "m", "p", ";", "l", "t", ";">>

(***************************************************************************)
(* A second run                                                            *)
(***************************************************************************)
\* C18 as claimed: once run has completed, the page files getPages returned
\* are the page files this run wrote, and every message merged comes from
\* one of them.
C18Claim ==
  stage = "done" =>
    LET written == {MessagesFile(writes[k].pageNum) : k \in 1..Len(writes)}
    IN /\ Range(pages) = written
       /\ \A i \in 1..Len(allMessages) :
            \E f \in written : allMessages[i] \in Range(files[f])

(***************************************************************************)
(* createHtml: the image index and the attachments                         *)
(***************************************************************************)
Rendering == stage \in {"rendering", "done"}

\* C19: createHtml goes through without images.json (missing, or not
\* readable): the head, the body of every message from a user handled so far
\* and, at the end, the foot are written, with every image URL of an html
\* body left as it is; with images.json read, every URL of an html body that
\* has an entry is replaced by its file name and every other URL is left as
\* it is.
C19ImageIndex ==
  Rendering =>
    /\ ImagesJson \notin DOMAIN files => imageIndex = <<>>
    /\ thrown = <<>> /\ runError = "none"
    /\ html[1].kind = "head"
    /\ stage = "done" => FootWritten
    /\ \A i \in 1..msgIdx :
         (allMessages[i].from # <<>> /\ allMessages[i].from[1].user # <<>>) =>
           /\ Tokens("body", i) # {}
           /\ \A k \in Tokens("body", i) :
                /\ Len(html[k].urls) = Len(allMessages[i].imageUrls)
                /\ \A j \in 1..Len(html[k].urls) :
                     LET u == allMessages[i].imageUrls[j] IN
                       html[k].urls[j] =
                         IF /\ allMessages[i].contentType = "html"
                            /\ imageIndex # <<>>
                            /\ u \in DOMAIN imageIndex[1]
                           THEN [file |-> imageIndex[1][u]]
                           ELSE [url |-> u]

\* the transcript is complete, there was no images.json, and the html body
\* of a message has kept its two image URLs
C19Witness ==
  /\ stage = "done"
  /\ ImagesJson \notin DOMAIN files
  /\ \E k \in 1..Len(html) :
       /\ html[k].kind = "body"
       /\ allMessages[html[k].at].contentType = "html"
       /\ html[k].urls = <<[url |-> "chats/img1"], [url |-> "chats/img2"]>>

AttachmentErrors ==
  {"Attachment content is null or empty", "Attachment parse error",
   "Attachment parsed object is null"}

\* C20: an attachment whose content is missing, is not JSON or is null is
\* left out with an error logged, and the attachments after it, the
\* reactions, the later messages and the foot are written all the same; an
\* attachment that parses is written once, with the timestamp of the first
\* message of the merged sequence that has its messageId, or that of its own
\* message when it has no messageId or no message has that id.
C20Attachments ==
  /\ stage = "done" => FootWritten
  /\ \A i \in 1..msgIdx :
       Rendered(allMessages[i]) =>
         /\ Len(allMessages[i].reactions) > 0 => Tokens("reactions", i) # {}
         /\ \A k \in 1..Len(allMessages[i].attachments) :
              LET att == allMessages[i].attachments[k]
                  shown == {t \in Tokens("attachment", i) : html[t].nr = k}
                  logged == {c \in 1..Len(console) :
                               /\ console[c].at = i
                               /\ console[c].nr = k
                               /\ console[c].what \in AttachmentErrors}
              IN IF att.content = <<>> \/ att.content[1].json # "object"
                   THEN shown = {} /\ logged # {}
                   ELSE LET ref == att.content[1].messageId
                            same == {j \in 1..Len(allMessages) :
                                       ref # <<>> /\ allMessages[j].id = ref[1]}
                            owner == IF same = {} THEN i
                                     ELSE CHOOSE j \in same : \A l \in same : j <= l
                        IN /\ Cardinality(shown) = 1
                           /\ logged = {}
                           /\ \A t \in shown :
                                html[t].timestamp = <<CurrentTime(allMessages[owner])>>

\* after an attachment that does not parse, an attachment is shown with the
\* timestamp of an earlier message, the first of two that have its messageId
C20Witness ==
  \E t \in 1..Len(html) : \E c \in 1..Len(console) :
    /\ html[t].kind = "attachment"
    /\ html[t].at = 2
    /\ html[t].nr = 2
    /\ html[t].timestamp = <<CurrentTime(allMessages[1])>>
    /\ allMessages[2].id = allMessages[1].id
    /\ console[c].what = "Attachment parse error"
    /\ console[c].at = 2

(***************************************************************************)
(* The retry of Backup.run in the CLI                                      *)
(***************************************************************************)
\* the messages for which the run is made a second time
RetryErrors == {"unauthorized", "invalid token"}

\* what holds of the runs of one invocation of main: there are at most two;
\* there is a second one only after a first one that failed with one of the
\* retry errors; the second one starts with fresh locals, at page 0 of the
\* chat; any other error of the first run, and any error of the second, is
\* the error main rejects with, and no run follows it
C21Runs ==
  /\ Len(runs) <= 2
  /\ Len(runs) = 2 => runs[1].error \in RetryErrors
  /\ (cli = "retry" /\ stage = "createTarget") =>
       /\ page = 0
       /\ url = BaseUrl
       /\ writes = <<>>
       /\ runError = "none"
  /\ (Len(runs) >= 1 /\ runs[1].error \notin RetryErrors \cup {"none"}) =>
       /\ Len(runs) = 1
       /\ cli = "rejected"
       /\ mainError = runs[1].error
  /\ (Len(runs) = 2 /\ runs[2].error # "none") =>
       /\ cli = "rejected"
       /\ mainError = runs[2].error

\* C21 (as stated): Backup.run is invoked at most twice, a second time only
\* after an 'unauthorized' or 'invalid token' error of the first, and then
\* the stored token has been cleared and replaced by the newly entered one
\* when the pipeline is invoked again from page 0; any other error, and any
\* error of the second run, is propagated without a further retry
C21Claim ==
  /\ C21Runs
  /\ cli = "retry" => token = <<runs[2].token>>

\* C21 (amended): Backup.run is invoked at most twice, a second time only
\* after an 'unauthorized' or 'invalid token' error of the first, with a
\* newly entered token and from page 0; the stored token is the newly entered
\* one when the token file could be written, and otherwise it is the old one
\* or none, the failure being only warned about; any other error, and any
\* error of the second run, is propagated without a further retry
C21Amended ==
  /\ C21Runs
  /\ cli = "retry" =>
       /\ runs[2].token # runs[1].token
       /\ runs[2].stored => token = <<runs[2].token>>
       /\ ~runs[2].stored => token \in {<<>>, <<runs[1].token>>}

\* the first run, made with the stored token, failed with 'unauthorized',
\* and the second run, made with the new token, which is stored, is fulfilled
C21Witness ==
  /\ cli = "fulfilled"
  /\ Len(runs) = 2
  /\ runs[1].token = "stored jwt"
  /\ runs[1].error = "unauthorized"
  /\ runs[2].stored
  /\ token = <<"new jwt">>

(***************************************************************************)
(* Termination of Backup.run                                               *)
(***************************************************************************)
\* a step of run or of one of its stages, or the event a stage waits for
RunStep ==
  \/ CreateTarget
  \/ GetMessages
  \/ GetMessagesFail
  \/ GetImagesBegin
  \/ GetImagesSkip
  \/ GetImagesDownload
  \/ GetImagesPiped
  \/ GetImagesStreamError
  \/ GetImagesFail
  \/ GetImagesEnd
  \/ CreateHtmlBegin
  \/ CreateHtmlFail
  \/ CreateHtmlMessage
  \/ CreateHtmlEnd

\* C22: Backup.run always terminates, fulfilled or rejected: as long as it is
\* neither, some stage can take a step or the response it waits for can
\* arrive, end or fail, and after an image response stream has failed
\* getImages rejects or goes on
C22Claim ==
  stage \notin {"done", "rejected"} => ENABLED RunStep

(***************************************************************************)
(* The div elements of the transcript                                      *)
(***************************************************************************)
\* the div tags that the write of one token opens
DivsOpened(element) ==
  CASE element.kind = "date" -> 1
    [] element.kind = "bubble" -> IF element.header THEN 2 ELSE 1
    [] element.kind = "message" -> 1
    [] element.kind = "attachment-container" -> 1
    [] element.kind = "attachment" -> 3
    [] element.kind = "reactions" -> 1
    [] element.kind = "reaction" -> 1
    [] element.kind = "body" -> 1
    [] OTHER -> 0

\* the div tags that the write of one token closes
DivsClosed(element) ==
  CASE element.kind = "date" -> 1
    [] element.kind = "bubble" -> IF element.header THEN 1 ELSE 0
    [] element.kind = "attachment" -> 3
    [] element.kind = "end-attachment-container" -> 1
    [] element.kind = "reaction" -> 1
    [] element.kind = "end-reactions" -> 1
    [] element.kind = "body" -> 3
    [] element.kind = "end-div" -> 1
    [] OTHER -> 0

\* the nesting depth of div elements after the output written for message i
RECURSIVE DepthOf(_, _)
DepthOf(i, n) ==
  IF n = 0 THEN 0
  ELSE DepthOf(i, n - 1)
       + (IF html[n].kind \notin {"head", "foot"} /\ html[n].at = i
            THEN DivsOpened(html[n]) - DivsClosed(html[n]) ELSE 0)

\* C23: the div elements written by createHtml are balanced per message:
\* after the output for a message, from a user or from an application, as
\* many div tags were closed as were opened
C23Claim ==
  \A i \in 1..msgIdx : DepthOf(i, Len(html)) = 0

(***************************************************************************)
(* The icon files of the emoticon downloader                               *)
(***************************************************************************)
IconFiles == {EmoticonFile(Emoticons[e]) : e \in 1..Len(Emoticons)}

\* the attempts of invocation k to download file f
AttemptsOf(k, f) ==
  {a \in 1..Len(attempts) : attempts[a].invocation = k /\ attempts[a].file = f}

\* the downloads of f that had failed by the end of invocation k
FailedBy(k, f) ==
  {a \in 1..Len(attempts) :
     /\ attempts[a].invocation <= k
     /\ attempts[a].file = f
     /\ attempts[a].outcome # "finish"}

\* C24: an icon file is on disk only if a download of the emoticon completed,
\* so a failed download leaves no file; a failed download does not stop the
\* loop, which ends with every emoticon on disk or attempted; and an icon
\* whose download failed and that is not complete is attempted again by the
\* next invocation of main
C24Claim ==
  /\ \A f \in IconFiles \cap DOMAIN assets : assets[f] = "png"
  /\ (emo = "returned" /\ processed = Len(Emoticons)) =>
       \A f \in IconFiles : f \in DOMAIN assets \/ AttemptsOf(invocation, f) # {}
  /\ (emo = "returned" /\ invocation > 1) =>
       \A f \in IconFiles :
         (FailedBy(invocation - 1, f) # {}
            /\ ~(f \in DOMAIN assets /\ assets[f] = "png"))
         => AttemptsOf(invocation, f) # {}

====
